---- MODULE Spec2Model ----
(***************************************************************************)
(* State-machine model of static/app.js, the browser client of the shared  *)
(* calendar: the session globals (token, me), the login and logout         *)
(* handlers, the passcode dialog (showModal), the calendar's select and    *)
(* eventClick handlers and the api() calls they dispatch.                  *)
(*                                                                         *)
(* One action is one run of the JavaScript event loop that changes what    *)
(* the program can do next: a handler from the human gesture (or network   *)
(* response) that starts it up to its next await.  prompt() and alert()    *)
(* block the page, so nothing interleaves inside a step.  A click on a     *)
(* dialog button settles the promise of showModal, and the continuation of *)
(* the awaiting handler runs as a microtask before any other event: it is  *)
(* part of the same step.                                                  *)
(*                                                                         *)
(* The server behind /api is not part of static/app.js.  It is modelled    *)
(* from the Gateway contract of the specification (GatewayAccepts,         *)
(* GatewayApply, TokenUser, Credential, InitialEvents).                    *)
(*                                                                         *)
(* Login requests in flight are counted per selected user, and the store   *)
(* hands out event ids in order, so the bounds below cap what is in flight *)
(* or stored, not how long a behaviour is.                                 *)
(*                                                                         *)
(* Text values are sequences of one-character strings so that trim() and   *)
(* JavaScript truthiness are computed, not assumed.                        *)
(***************************************************************************)
EXTENDS Integers, Sequences, FiniteSets, TLC

\* ---------------------------------------------------------------- bounds
\* Login requests that may be in flight at once.
MaxPendingLogins == 1
\* Create/edit/delete actions that may reach the passcode dialog.
MaxActions == 1

\* ------------------------------------------------------- JavaScript values
\* null where a string is expected (prompt dismissed, note: null).
NullStr == <<"null">>
\* let token = null
NoToken == [user |-> "none"]
\* let me = null
NoMe == [id |-> "none", name |-> "none"]

\* !!s for a string-or-null value: null and "" are falsy.
Truthy(s) == s # NullStr /\ s # <<>>

\* a || b
OrElse(a, b) == IF Truthy(a) THEN a ELSE b

\* a ?? b
Nullish(a, b) == IF a # NullStr THEN a ELSE b

IsSpace(c) == c = " "

RECURSIVE TrimStart(_)
TrimStart(s) ==
    IF s # <<>> /\ IsSpace(Head(s)) THEN TrimStart(Tail(s)) ELSE s

RECURSIVE TrimEnd(_)
TrimEnd(s) ==
    IF s # <<>> /\ IsSpace(s[Len(s)]) THEN TrimEnd(SubSeq(s, 1, Len(s) - 1)) ELSE s

\* A trim that leaves the trailing whitespace in place.
TrimStartOnly(s) == TrimStart(s)

\* String.prototype.trim
Trim(s) == TrimEnd(TrimStart(s))

\* ------------------------------------------------------------ user directory
Users == {"alice", "bob"}

UserName(u) == IF u = "alice" THEN "Alice" ELSE "Bob"

\* ------------------------------------------------------------------ messages
\* new Error("취소"), the rejection of a cancelled dialog.
CancelMsg == <<"cancel">>
\* data.detail || "요청 실패"
DefaultMsg == <<"request failed">>
\* calendar.refetchEvents() with calendar === null throws a TypeError.
TypeErrorMsg == <<"TypeError: calendar is null">>
\* alert("edit 또는 delete만.")
OnlyEditDeleteMsg == <<"edit or delete only">>
\* alert(`이 일정은 ${ownerName} 작성이라 너는 손대면 안 됨.`)
NotYoursMsg(ownerName) == <<"not yours, written by", ownerName>>

\* throw new Error(data.detail || "요청 실패")
ErrorMessage(detail) == OrElse(detail, DefaultMsg)

\* The catch block without its test of the message: alert(e.message).
CatchAlertsAll(msg) == <<msg>>

\* catch (e) { if (e.message !== "취소") alert(e.message); }
CatchAlerts(msg) == IF msg # CancelMsg THEN <<msg>> ELSE <<>>

\* ------------------------------------------------------------- human inputs
\* What prompt("일정 제목 입력") may return.
TitleInputs == {NullStr, <<>>, <<" ">>, <<"T">>}
\* What prompt("새 제목", ev.title) may return besides the prefilled title.
NewTitleInputs == {NullStr, <<>>, <<"U">>}
\* What prompt("입력: edit / delete") may return.
EditAction == <<"e", "d", "i", "t">>
DeleteAction == <<"d", "e", "l", "e", "t", "e">>
ActionInputs == {NullStr, <<>>, EditAction, DeleteAction, <<"x">>}
\* What #modalPass and #modalNote may hold when the human clicks Ok: a blank
\* passcode with a note, and the right passcode with a blank note.
DialogInputs ==
    {[pass |-> <<" ">>, note |-> <<" ", "n", " ">>],
     [pass |-> <<" ", "p", " ">>, note |-> <<" ">>]}
\* detail fields of the Gateway's error responses (<<>>: no detail).
Details == {<<>>, <<"bad passcode">>, <<"cancel">>}

\* --------------------------------------------------------------- the server
\* The user of the session the Gateway finds for a bearer token.
TokenUser(t) == t.user

\* The token the Gateway issues for a login of user u.
IssueToken(u) == [user |-> u]

\* The passcode the Gateway expects of a user on every mutation.
Credential(u) == <<"p">>

NoEvent == [owner |-> "none", title |-> NullStr, note |-> NullStr]

\* The events the store holds when the page is loaded.
InitialEvents ==
    <<[owner |-> "alice", title |-> <<"A">>, note |-> <<"m">>]>>

\* One id for each initial event and for each event an action may create.
EventIds == 1..(Len(InitialEvents) + MaxActions + 1)

\* ---------------------------------------------------------------- requests
NoReq == [method |-> "none"]
NoBody == [absent |-> TRUE]

\* const headers = options.headers || {};
\* if (token) headers["Authorization"] = `Bearer ${token}`;
AuthHeader(tok) == IF tok # NoToken THEN tok ELSE NoToken

\* body of POST /api/events
CreateBody(title, note, passcode) ==
    [title |-> title, start_at |-> "S", end_at |-> "E", all_day |-> TRUE,
     note |-> OrElse(note, NullStr), passcode |-> passcode]

\* body of PUT /api/events/${ev.id}
UpdateBody(newTitle, note, evNote, passcode) ==
    [title |-> newTitle, note |-> OrElse(OrElse(note, evNote), NullStr),
     passcode |-> passcode]

\* api(path, options): the request handed to fetch().
Request(method, id, tok, body, query) ==
    [method |-> method, id |-> id, auth |-> AuthHeader(tok), body |-> body,
     query |-> query]

ReqPasscode(req) == IF req.method = "DELETE" THEN req.query ELSE req.body.passcode

\* Whether the Gateway may answer a mutation with success.
GatewayAccepts(req, store) ==
    /\ TokenUser(req.auth) \in Users
    /\ ReqPasscode(req) = Credential(TokenUser(req.auth))
    /\ IF req.method = "POST"
       THEN Truthy(req.body.title)
       ELSE /\ store[req.id] # NoEvent
            /\ store[req.id].owner = TokenUser(req.auth)

\* The store after the Gateway has carried out an accepted mutation.
GatewayApply(req, store, created) ==
    IF req.method = "POST"
    THEN [store EXCEPT ![Len(InitialEvents) + created + 1] =
              [owner |-> TokenUser(req.auth), title |-> req.body.title,
               note |-> req.body.note]]
    ELSE IF req.method = "PUT"
    THEN [store EXCEPT ![req.id] =
              [owner |-> @.owner, title |-> req.body.title, note |-> req.body.note]]
    ELSE [store EXCEPT ![req.id] = NoEvent]

\* ------------------------------------------------------------------- state
VARIABLES
    token,        \* let token
    me,           \* let me
    calendar,     \* let calendar: 0 (undefined/null) or 1 (an instance)
    display,      \* style.display of loginCard, calendarCard, logoutBtn, modal
    logins,       \* /api/login requests in flight, counted per user_id sent
    modalOk,      \* $("modalOk").onclick: 0 (null) or the flow whose promise it resolves
    modalCancel,  \* $("modalCancel").onclick: 0 (null) or the flow whose promise it rejects
    flows,        \* the runs of select / eventClick that reached showModal
    nActions,     \* flows started so far
    events,       \* the Gateway's event store
    nCreated,     \* events created so far
    shown,        \* the events the calendar holds, from its last list response
    listPending,  \* a GET /api/events of the live calendar is in flight
    obs           \* what the last step did: messages, dispatch, re-fetch, dialog

vars == <<token, me, calendar, display, logins, modalOk,
          modalCancel, flows, nActions, events, nCreated, shown, listPending, obs>>

NoEv == [id |-> 0, title |-> NullStr, ownerUserId |-> "none", ownerName |-> "none",
         note |-> NullStr]

\* clickInfo.event for a shown event
ClickedEvent(id) ==
    [id |-> id, title |-> shown[id].title, ownerUserId |-> shown[id].owner,
     ownerName |-> UserName(shown[id].owner), note |-> shown[id].note]

\* input: what the title prompt returned; by: me.id when the request was
\* dispatched (kept for stating properties only).
IdleFlow ==
    [pc |-> "idle", kind |-> "none", ev |-> NoEv, input |-> NullStr,
     title |-> NullStr, req |-> NoReq, by |-> "none"]

EndFlow == [IdleFlow EXCEPT !.pc = "end"]

\* What #modalPass and #modalNote held at the last click on Ok.
NoEntered == [pass |-> NullStr, note |-> NullStr]

\* user, prior, undestroyed: of a successful login response, the user it is
\* for, the token it found in place, and whether its initCalendar() replaced
\* an instance that had not been destroyed.
NoObs ==
    [h |-> "none", f |-> 0, ev |-> 0, kind |-> "none", alerts |-> <<>>, dispatched |-> FALSE,
     refetch |-> FALSE, opened |-> FALSE, ok |-> FALSE, created |-> 0,
     by |-> "none", lo |-> FALSE, outcome |-> "none", entered |-> NoEntered,
     user |-> "none", prior |-> NoToken, undestroyed |-> FALSE]

EmptyStore == [i \in EventIds |-> NoEvent]

PendingLogins == logins["alice"] + logins["bob"]

\* The page after init(): nobody is logged in, no calendar exists.  The
\* page's markup is not part of static/app.js; it is taken to show the login
\* card and to hide the calendar card, the logout button and the dialog,
\* which is the state the logout handler restores.  No handler looks at the
\* dialog before acting, so the human gestures below are possible whether
\* or not the dialog is shown.
Init ==
    /\ token = NoToken
    /\ me = NoMe
    /\ calendar = 0
    /\ display = [loginCard |-> "block", calendarCard |-> "none",
                  logoutBtn |-> "none", modal |-> "none"]
    /\ logins = [u \in Users |-> 0]
    /\ modalOk = 0
    /\ modalCancel = 0
    /\ flows = [f \in 1..(MaxActions + 1) |-> IdleFlow]
    /\ nActions = 0
    /\ events = [i \in EventIds |->
                    IF i <= Len(InitialEvents) THEN InitialEvents[i] ELSE NoEvent]
    /\ nCreated = 0
    /\ shown = EmptyStore
    /\ listPending = FALSE
    /\ obs = NoObs

\* ------------------------------------------------------------ login, logout
\* $("loginBtn").onclick up to the await of api("/api/login").
LoginClick(pending) ==
    \E u \in Users :
        /\ display.loginCard = "block"
        /\ PendingLogins < pending
        /\ logins' = [logins EXCEPT ![u] = @ + 1]
        /\ obs' = [NoObs EXCEPT !.h = "loginClick"]
        /\ UNCHANGED <<token, me, calendar, display, modalOk, modalCancel,
                       flows, nActions, events, nCreated, shown, listPending>>

\* initCalendar(): calendar = new FullCalendar.Calendar(...); calendar.render()
\* The instance calendar referred to before, if any, is not destroyed.
InitCalendar ==
    /\ calendar' = 1
    /\ shown' = EmptyStore
    /\ listPending' = TRUE

\* A login response of which only the token is kept.
SetSessionTokenOnly(u) ==
    /\ token' = IssueToken(u)
    /\ UNCHANGED me

\* A login response that is dropped when a session is already active.
SetSessionKeepsPrior(u) ==
    IF token = NoToken
    THEN /\ token' = IssueToken(u)
         /\ me' = [id |-> u, name |-> UserName(u)]
    ELSE UNCHANGED <<token, me>>

\* token = out.token; me = { id: out.user_id, name: out.name, ... }
SetSession(u) ==
    /\ token' = IssueToken(u)
    /\ me' = [id |-> u, name |-> UserName(u)]

\* $("loginBtn").onclick after a successful /api/login response.
LoginOk ==
    \E u \in Users :
        /\ logins[u] > 0
        /\ logins' = [logins EXCEPT ![u] = @ - 1]
        /\ SetSession(u)
        /\ display' = [display EXCEPT !.loginCard = "none", !.calendarCard = "block",
                                      !.logoutBtn = "inline-block"]
        /\ InitCalendar
        /\ obs' = [NoObs EXCEPT !.h = "loginOk", !.ok = TRUE, !.user = u,
                                !.prior = token, !.undestroyed = (calendar # 0)]
        /\ UNCHANGED <<modalOk, modalCancel, flows, nActions, events, nCreated>>

\* $("loginBtn").onclick after a failed /api/login response: alert(e.message).
LoginFail ==
    \E u \in Users, d \in Details :
        /\ logins[u] > 0
        /\ logins' = [logins EXCEPT ![u] = @ - 1]
        /\ obs' = [NoObs EXCEPT !.h = "loginFail", !.alerts = <<ErrorMessage(d)>>]
        /\ UNCHANGED <<token, me, calendar, display, modalOk,
                       modalCancel, flows, nActions, events, nCreated, shown, listPending>>

\* The logout handler forgetting the token: me = null only.
ClearSessionKeepsToken ==
    /\ me' = NoMe
    /\ UNCHANGED token

\* token = null; me = null;
ClearSession ==
    /\ token' = NoToken
    /\ me' = NoMe

\* $("logoutBtn").onclick
Logout ==
    /\ display.logoutBtn = "inline-block"
    /\ ClearSession
    /\ display' = [display EXCEPT !.calendarCard = "none", !.loginCard = "block",
                                  !.logoutBtn = "none"]
    /\ IF calendar # 0
       THEN /\ calendar' = 0
            /\ shown' = EmptyStore
            /\ listPending' = FALSE
       ELSE UNCHANGED <<calendar, shown, listPending>>
    /\ obs' = [NoObs EXCEPT !.h = "logout"]
    /\ UNCHANGED <<logins, modalOk, modalCancel, flows, nActions, events,
                   nCreated>>

\* events: the list call of the live calendar returns (with the events, or
\* with a failure that leaves the calendar's events as they were).
ListResponse ==
    /\ listPending
    /\ calendar # 0
    /\ listPending' = FALSE
    /\ \/ shown' = events
       \/ UNCHANGED shown
    /\ obs' = [NoObs EXCEPT !.h = "listResponse"]
    /\ UNCHANGED <<token, me, calendar, display, logins, modalOk,
                   modalCancel, flows, nActions, events, nCreated>>

\* ------------------------------------------------------ the passcode dialog
\* showModal(): the dialog is shown and both onclick handlers are assigned,
\* replacing whatever handlers were there.
ShowModal(f) ==
    /\ modalOk' = f
    /\ modalCancel' = f
    /\ display' = [display EXCEPT !.modal = "grid"]

\* A cleanup that hides the dialog and leaves both handlers in place.
CleanupHidesOnly ==
    /\ UNCHANGED <<modalOk, modalCancel>>
    /\ display' = [display EXCEPT !.modal = "none"]

\* cleanup() of showModal
Cleanup ==
    /\ modalOk' = 0
    /\ modalCancel' = 0
    /\ display' = [display EXCEPT !.modal = "none"]

\* withNote of the showModal call of each kind of action
WithNote(kind) == kind # "delete"

\* The ownership gate testing only that someone is logged in.
IsMineAnySession(ownerId) == me # NoMe

\* const isMine = me && ownerId === me.id;
IsMine(ownerId) == me # NoMe /\ ownerId = me.id

\* if (!title) return;
TitleMissing(title) == ~Truthy(title)

\* prompt("새 제목", ev.title) ?? ev.title
NewTitle(input, evTitle) == Nullish(input, evTitle)

\* A handler that returns before any await: only its messages remain.
Returns(h, id, kind, alerts) ==
    /\ obs' = [NoObs EXCEPT !.h = h, !.ev = id, !.kind = kind, !.alerts = alerts]
    /\ UNCHANGED <<modalOk, modalCancel, display, flows, nActions>>

\* A handler that reaches await showModal(...): it is suspended as the next flow.
Suspends(h, cap, kind, ev, input, title) ==
    /\ nActions < cap
    /\ nActions' = nActions + 1
    /\ ShowModal(nActions + 1)
    /\ flows' = [flows EXCEPT ![nActions + 1] =
                    [IdleFlow EXCEPT !.pc = "modal", !.kind = kind, !.ev = ev,
                                     !.input = input, !.title = title]]
    /\ obs' = [NoObs EXCEPT !.h = h, !.kind = kind, !.f = nActions + 1,
                            !.ev = ev.id, !.opened = TRUE]

\* ------------------------------------------------------------------ create
\* select: from the date selection to the await of showModal (or the return).
Select(cap) ==
    \E title \in TitleInputs :
        /\ calendar # 0
        /\ display.calendarCard = "block"
        /\ IF TitleMissing(title)
           THEN Returns("select", 0, "create", <<>>)
           ELSE Suspends("select", cap, "create", NoEv, title, title)
        /\ UNCHANGED <<token, me, calendar, logins, events,
                       nCreated, shown, listPending>>

\* ------------------------------------------------------------- edit, delete
\* eventClick: from the click to the await of showModal (or the return).
EventClick(cap) ==
    \E id \in EventIds :
        /\ calendar # 0
        /\ display.calendarCard = "block"
        /\ shown[id] # NoEvent
        /\ LET ev == ClickedEvent(id) IN
           IF ~IsMine(ev.ownerUserId)
           THEN Returns("eventClick", id, "none", <<NotYoursMsg(ev.ownerName)>>)
           ELSE \E action \in ActionInputs :
                IF ~Truthy(action)
                THEN Returns("eventClick", id, "none", <<>>)
                ELSE IF action = DeleteAction
                THEN Suspends("eventClick", cap, "delete", ev, NullStr, NullStr)
                ELSE IF action = EditAction
                THEN \E input \in NewTitleInputs \cup {ev.title} :
                        Suspends("eventClick", cap, "edit", ev, input,
                                 NewTitle(input, ev.title))
                ELSE Returns("eventClick", id, "none", <<OnlyEditDeleteMsg>>)
        /\ UNCHANGED <<token, me, calendar, logins, events,
                       nCreated, shown, listPending>>

\* The request the continuation of flow fl dispatches once the dialog has
\* resolved with {passcode, note}.
FlowRequest(fl, passcode, note) ==
    IF fl.kind = "create"
    THEN Request("POST", 0, token, CreateBody(fl.title, note, passcode), NullStr)
    ELSE IF fl.kind = "delete"
    THEN Request("DELETE", fl.ev.id, token, NoBody, passcode)
    ELSE Request("PUT", fl.ev.id, token,
                 UpdateBody(fl.title, note, fl.ev.note, passcode), NullStr)

\* $("modalOk").onclick, then the continuation of the awaiting handler up to
\* the fetch() of its api() call.
ModalOkClick ==
    \E in \in DialogInputs :
        /\ modalOk # 0
        /\ display.modal = "grid"
        /\ LET f == modalOk
               passcode == Trim(in.pass)
               note == Trim(IF WithNote(flows[f].kind) THEN in.note ELSE <<>>)
           IN /\ Cleanup
              /\ flows' = [flows EXCEPT ![f] =
                              [@ EXCEPT !.pc = "net",
                                        !.req = FlowRequest(flows[f], passcode, note),
                                        !.by = me.id]]
              /\ obs' = [NoObs EXCEPT !.h = "modalOk", !.f = f, !.kind = flows[f].kind,
                                      !.dispatched = TRUE, !.entered = in]
        /\ UNCHANGED <<token, me, calendar, logins, nActions,
                       events, nCreated, shown, listPending>>

\* $("modalCancel").onclick, then the catch block of the awaiting handler.
ModalCancelClick ==
    /\ modalCancel # 0
    /\ display.modal = "grid"
    /\ LET f == modalCancel IN
       /\ Cleanup
       /\ flows' = [flows EXCEPT ![f] = EndFlow]
       /\ obs' = [NoObs EXCEPT !.h = "modalCancel", !.f = f, !.kind = flows[f].kind,
                               !.alerts = CatchAlerts(CancelMsg),
                               !.outcome = "Cancelled"]
    /\ UNCHANGED <<token, me, calendar, logins, nActions,
                   events, nCreated, shown, listPending>>

\* The id the store gives the next created event.
NextEventId == Len(InitialEvents) + nCreated + 1

\* What the response step of flow f records.  lo: the request carried a
\* token and the session has been cleared by the time the response arrives.
ResponseObs(f, ok, alerts, refetch, outcome) ==
    [NoObs EXCEPT !.h = "response", !.f = f, !.kind = flows[f].kind, !.ok = ok,
                  !.alerts = alerts, !.refetch = refetch, !.outcome = outcome,
                  !.created = IF ok /\ flows[f].req.method = "POST"
                              THEN NextEventId ELSE 0,
                  !.by = flows[f].by,
                  !.lo = (flows[f].req.auth # NoToken /\ token = NoToken)]

\* A create/update/delete call returns with success: the handler goes on to
\* calendar.refetchEvents(), which throws into the catch block when
\* calendar is null.
MutationOk ==
    \E f \in DOMAIN flows :
        /\ flows[f].pc = "net"
        /\ GatewayAccepts(flows[f].req, events)
        /\ events' = GatewayApply(flows[f].req, events, nCreated)
        /\ nCreated' = IF flows[f].req.method = "POST" THEN nCreated + 1 ELSE nCreated
        /\ flows' = [flows EXCEPT ![f] = EndFlow]
        /\ IF calendar # 0
           THEN /\ listPending' = TRUE
                /\ obs' = ResponseObs(f, TRUE, <<>>, TRUE, "Done")
           ELSE /\ UNCHANGED listPending
                /\ obs' = ResponseObs(f, TRUE, CatchAlerts(TypeErrorMsg), FALSE, "Failed")
        /\ UNCHANGED <<token, me, calendar, display, logins,
                       modalOk, modalCancel, nActions, shown>>

\* A catch block that sends the request of its handler again.
DispatchesAgain(fl) == fl

\* catch (e) { ... }: the handler is over once its catch block has run.
AfterCatch(fl) == EndFlow

\* A create/update/delete call returns with a failure: api() throws
\* Error(detail) into the catch block.
MutationFail ==
    \E f \in DOMAIN flows, d \in Details :
        /\ flows[f].pc = "net"
        /\ flows' = [flows EXCEPT ![f] = AfterCatch(flows[f])]
        /\ obs' = ResponseObs(f, FALSE, CatchAlerts(ErrorMessage(d)), FALSE, "Failed")
        /\ UNCHANGED <<token, me, calendar, display, logins,
                       modalOk, modalCancel, nActions, events, nCreated, shown,
                       listPending>>

\* ---------------------------------------------------------- specifications
\* pending: login requests that may be in flight at once; cap: actions the
\* human may start.
Step(pending, cap) ==
    \/ LoginClick(pending)
    \/ LoginOk
    \/ LoginFail
    \/ Logout
    \/ ListResponse
    \/ Select(cap)
    \/ EventClick(cap)
    \/ ModalOkClick
    \/ ModalCancelClick
    \/ MutationOk
    \/ MutationFail

Next == Step(MaxPendingLogins, MaxActions)

Spec == Init /\ [][Next]_vars

\* The human starts one action more, so that two of them can overlap.
NextTwo == Step(MaxPendingLogins, MaxActions + 1)

SpecTwo == Init /\ [][NextTwo]_vars

\* One login request more may be in flight, so that a response can arrive
\* after the session it was asked under has gone or has been replaced.
NextLogins == Step(MaxPendingLogins + 1, MaxActions)

SpecLogins == Init /\ [][NextLogins]_vars

\* Every network call eventually returns, and the human eventually clicks
\* Ok or Cancel in a dialog that stays shown.
Fairness ==
    /\ WF_vars(LoginOk \/ LoginFail)
    /\ WF_vars(ListResponse)
    /\ WF_vars(MutationOk \/ MutationFail)
    /\ WF_vars(ModalOkClick \/ ModalCancelClick)

SpecFair == Init /\ [][NextTwo]_vars /\ Fairness

\* ------------------------------------------------------------------ claims
MutatingKinds == {"create", "edit", "delete"}

InFlight == {f \in DOMAIN flows : flows[f].pc = "net"}

\* C1: no update or delete call for an event E is ever dispatched carrying
\* the credential of a session whose user is not E's owner, also when the
\* active session changes while the confirmation dialog is outstanding.
C1_OnlyOwnerCredential ==
    \A f \in InFlight :
        flows[f].kind \in {"edit", "delete"} /\ TokenUser(flows[f].req.auth) \in Users
            => TokenUser(flows[f].req.auth) = flows[f].ev.ownerUserId

\* C2: when the session was cleared between the dispatch of a mutating call
\* and the arrival of its response, the result is discarded: no re-fetch and
\* no message, success or error.
C2_DiscardedAfterLogout ==
    obs.h = "response" /\ obs.lo => obs.alerts = <<>> /\ ~obs.refetch

\* C3: a create, update or delete request is never dispatched while no
\* session is active (token is null).
C3_NoDispatchWithoutSession ==
    obs.dispatched => token # NoToken

\* C4: when the human cancels the confirmation dialog of a create, edit or
\* delete action, the action ends Cancelled having dispatched no Gateway
\* call, surfaced no message and triggered no re-fetch.
C4_CancelIsSilent ==
    obs.h = "modalCancel" =>
        /\ obs.kind \in MutatingKinds
        /\ obs.alerts = <<>>
        /\ ~obs.dispatched
        /\ ~obs.refetch
        /\ obs.outcome = "Cancelled"
        /\ flows[obs.f].pc = "end"
        /\ flows[obs.f].req = NoReq

C4_Witness ==
    obs.h = "modalCancel" /\ obs.kind = "edit" /\ flows[obs.f].pc = "end"

\* C5: at every moment at most one mutating Gateway call is in flight.
C5_OneMutationInFlight == Cardinality(InFlight) <= 1

\* C6: a confirmation request opened while an earlier one is outstanding
\* cancels the stale one: no flow stays suspended in a dialog whose buttons
\* belong to another request.
C6_StaleRequestCancelled ==
    \A f \in DOMAIN flows : flows[f].pc = "modal" => modalOk = f /\ modalCancel = f

\* C7: the event a successful create stores is owned by the user of the
\* session that was active when the create call was dispatched, and the
\* body of a create call carries no owner field.
C7_CreatedOwnerIsSession ==
    /\ obs.created # 0 => events[obs.created].owner = obs.by
    /\ \A f \in InFlight :
          flows[f].kind = "create" =>
              DOMAIN flows[f].req.body =
                  {"title", "start_at", "end_at", "all_day", "note", "passcode"}

C7_Witness ==
    obs.created # 0 /\ events[obs.created].owner = "bob" /\ obs.by = "bob"

\* C8: a click on an event whose owner is not the active session's user (or
\* with no session active) is refused at once with one message naming the
\* event's owner; no confirmation dialog is opened and no call is made.
C8_NotMineRefused ==
    obs.h = "eventClick" /\ (me = NoMe \/ shown[obs.ev].owner # me.id) =>
        /\ obs.alerts = <<NotYoursMsg(UserName(shown[obs.ev].owner))>>
        /\ ~obs.opened
        /\ ~obs.dispatched
        /\ obs.f = 0

C8_Witness ==
    /\ obs.h = "eventClick"
    /\ me.id = "bob"
    /\ shown[obs.ev].owner = "alice"
    /\ obs.alerts = <<NotYoursMsg("Alice")>>

\* C9: in the create flow a blank title (prompt dismissed, empty, or only
\* whitespace) aborts the action: no create flow reaches the confirmation
\* dialog, or the network, with a blank title.
C9_BlankTitleAborts ==
    \A f \in DOMAIN flows :
        flows[f].kind = "create" /\ flows[f].pc \in {"modal", "net"}
            => flows[f].input # NullStr /\ Trim(flows[f].input) # <<>>

\* C10: the title an update call sends is the event's current title when
\* the human supplied nothing in the title prompt (dismissed it or submitted
\* it empty), and the supplied title otherwise.
C10_EditTitleDefault ==
    \A f \in InFlight :
        flows[f].kind = "edit" =>
            flows[f].req.body.title =
                IF flows[f].input = NullStr \/ flows[f].input = <<>>
                THEN flows[f].ev.title
                ELSE flows[f].input

\* n characters of whitespace
Spaces(n) == [i \in 1..n |-> " "]

\* Only whitespace, or nothing at all.
Blank(s) == \A i \in 1..Len(s) : IsSpace(s[i])

\* r is s without the whitespace around it.
IsTrimOf(r, s) ==
    /\ r # <<>> => ~IsSpace(r[1]) /\ ~IsSpace(r[Len(r)])
    /\ \E i, j \in 0..Len(s) : s = Spaces(i) \o r \o Spaces(j)

\* C11: on submit of the confirmation dialog a call is dispatched whose
\* passcode is the entered passcode without its surrounding whitespace, also
\* when that is empty; the note of a create call is the trimmed entered
\* note, or null when the entered note is blank; the note of an update call
\* is the trimmed entered note, else the event's existing note, else null.
C11_ForwardedInputs ==
    obs.h = "modalOk" =>
        LET fl == flows[obs.f]
            req == fl.req
        IN /\ obs.dispatched
           /\ fl.pc = "net"
           /\ IsTrimOf(ReqPasscode(req), obs.entered.pass)
           /\ fl.kind \in {"create", "edit"} /\ ~Blank(obs.entered.note)
                  => IsTrimOf(req.body.note, obs.entered.note)
           /\ fl.kind = "create" /\ Blank(obs.entered.note)
                  => req.body.note = NullStr
           /\ fl.kind = "edit" /\ Blank(obs.entered.note)
                  => req.body.note =
                         IF fl.ev.note # NullStr /\ fl.ev.note # <<>>
                         THEN fl.ev.note ELSE NullStr

\* An update submitted with the passcode between spaces and a blank note:
\* the passcode goes out trimmed and the event's existing note is kept.
C11_Witness ==
    /\ obs.h = "modalOk"
    /\ obs.kind = "edit"
    /\ obs.entered = [pass |-> <<" ", "p", " ">>, note |-> <<" ">>]
    /\ flows[obs.f].ev.note = <<"m">>
    /\ flows[obs.f].req.body.passcode = <<"p">>
    /\ flows[obs.f].req.body.note = <<"m">>

\* C12: only a human cancel of the confirmation dialog is silent: a failure
\* returned by the Gateway call of a create, edit or delete action is
\* surfaced as exactly one message, whatever the text of its detail.
C12_EveryFailureSurfaced ==
    obs.h = "response" /\ ~obs.ok => Len(obs.alerts) = 1

\* C13: the response step of a create, update or delete call triggers a
\* re-fetch of the visible range exactly when the response is a success, and
\* a cancelled action triggers none.
C13_RefetchAfterSuccess ==
    /\ obs.h = "response" => (obs.refetch <=> obs.ok)
    /\ obs.h = "modalCancel" => ~obs.refetch

\* C14: every started create, edit or delete action eventually ends: a
\* handler suspended in the confirmation dialog or in its Gateway call
\* eventually leaves through its return or its catch block.
C14_EveryActionEnds ==
    \A f \in 1..(MaxActions + 1) :
        flows[f].pc \in {"modal", "net"} ~> flows[f].pc = "end"

\* C15: a click on logout leaves no session active, and a login response
\* that arrives as the very next step, whose request was therefore issued
\* before that logout, does not establish a session.
C15_StaleLoginIgnored ==
    [][/\ obs'.h = "logout" => token' = NoToken /\ me' = NoMe
       /\ obs.h = "logout" /\ obs'.h = "loginOk" => token' = NoToken /\ me' = NoMe]_vars

\* C16: a successful login response makes the session it carries the active
\* one, whatever session was active before; a failed login response leaves
\* token and me as they were and surfaces exactly one message.
C16_LoginSetsOrKeepsSession ==
    [][/\ obs'.h = "loginOk" =>
              /\ token' = IssueToken(obs'.user)
              /\ me' = [id |-> obs'.user, name |-> UserName(obs'.user)]
       /\ obs'.h = "loginFail" =>
              /\ token' = token
              /\ me' = me
              /\ Len(obs'.alerts) = 1]_vars

\* bob's login response arrives while alice's session is active.
C16_Witness ==
    /\ obs.h = "loginOk"
    /\ obs.prior = IssueToken("alice")
    /\ obs.user = "bob"
    /\ token = IssueToken("bob")
    /\ me.id = "bob"

\* C17: each create, edit or delete action dispatches at most one mutating
\* call: a call is dispatched only by the submit of the action's dialog, it
\* stays the same call until its response, and the response, failure
\* included, ends the action for good.
C17_OneCallPerAction ==
    [][/\ obs'.dispatched => obs'.h = "modalOk"
       /\ \A f \in DOMAIN flows :
             /\ flows'[f].pc = "net" /\ flows[f].pc # "net" =>
                    flows[f].pc = "modal" /\ obs'.h = "modalOk" /\ obs'.f = f
             /\ flows'[f].pc = "net" /\ flows[f].pc = "net" =>
                    flows'[f] = flows[f] /\ ~(obs'.h = "response" /\ obs'.f = f)
             /\ flows[f].pc = "net" /\ flows'[f].pc # "net" => flows'[f].pc = "end"
             /\ flows[f].pc = "end" => flows'[f].pc = "end"]_vars

\* A failed call has come back and nothing is in flight.
C17_Witness ==
    /\ obs.h = "response"
    /\ ~obs.ok
    /\ flows[obs.f].pc = "end"
    /\ InFlight = {}

\* C18: in every reachable state token is null exactly when me is null, and
\* when both are set they are the token and the identity of one login
\* response.
C18_TokenMeConsistent ==
    /\ token = NoToken <=> me = NoMe
    /\ token # NoToken =>
           /\ me.id = TokenUser(token)
           /\ me.name = UserName(TokenUser(token))

\* The human has logged out while a login request is still in flight.
C18_Witness ==
    /\ obs.h = "logout"
    /\ PendingLogins > 0
    /\ token = NoToken
    /\ me = NoMe

\* C19: in every reachable state a calendar instance is live exactly when a
\* session is active, and no step replaces an instance by a new one without
\* the old one having been destroyed first.
C19_OneCalendarPerSession ==
    /\ calendar # 0 <=> token # NoToken
    /\ ~obs.undestroyed

\* C20: a confirmation request settles at most once: the click that settles
\* it hides the dialog and clears both handlers, and a handler that is in
\* place always belongs to a request that has not been settled, so a
\* further click settles nothing and dispatches nothing.
C20_SettlesOnce ==
    /\ obs.h \in {"modalOk", "modalCancel"} =>
           /\ modalOk = 0
           /\ modalCancel = 0
           /\ display.modal = "none"
           /\ flows[obs.f].pc # "modal"
    /\ modalOk # 0 => flows[modalOk].pc = "modal"
    /\ modalCancel # 0 => flows[modalCancel].pc = "modal"

\* The request has been settled by a click on Ok and its call is in flight.
C20_Witness ==
    /\ obs.h = "modalOk"
    /\ modalOk = 0
    /\ modalCancel = 0
    /\ flows[obs.f].pc = "net"

====
